---------------------------- MODULE Spec2Model ----------------------------
(***************************************************************************)
(* AskDB: natural-language queries against heterogeneous data stores.      *)
(*                                                                         *)
(* Three specifications share this module:                                 *)
(*   Spec      the two HTTP routes (/connect, /query) of                    *)
(*             routes/query_routes.py with the single-slot registry        *)
(*             `connections`, connect_to_db and concurrent query requests;  *)
(*   SpecGen   natural_to_sql's post-processing of the generated text      *)
(*             (_strip_code_fences, the SQL verb search, json.loads);      *)
(*   SpecExec  execute_query's result normalisation per backend kind.      *)
(***************************************************************************)
EXTENDS Integers, Sequences, FiniteSets, TLC

VARIABLES
    connections,   \* query_routes.connections: None or the "active" entry
    firebase_app,  \* firebase_admin._apps: None or the initialised default app
    nconn,         \* number of client objects created so far
    connLog,       \* outcome of the last /connect request (observation)
    pc,            \* per query request: position inside query()
    act,           \* per query request: the triple read from connections["active"]
    stages,        \* per query request: the stages invoked so far, in order
    failed,        \* per query request: the stage that raised, or "none"
    inCall,        \* per query request: id of the client it is inside a driver call on, or 0
    resp,          \* per query request: the JSON response, or None
    used,          \* per query request: the arguments passed to each stage so far
    pipe           \* one natural_to_sql -> execute_query run (SpecPipeline)

routeVars ==
    <<connections, firebase_app, nconn, connLog, pc, act, stages, failed, inCall, resp, used>>

vars == <<routeVars, pipe>>

None == [none |-> TRUE]

-----------------------------------------------------------------------------
(* Bounds *)

NReq == 2          \* concurrent /query requests
MaxConnects == 2   \* /connect requests in one run
NCreds == 2        \* distinct valid service-account blobs

-----------------------------------------------------------------------------
(* connect_to_db *)

SupportedKinds == {"mysql", "postgres", "mongodb", "redis", "firebase", "elasticsearch"}

\* values of data.get("type") the route can receive
RequestTypes == SupportedKinds \cup {"custom", "oracle"}

\* data.get("config"): None (absent), or a mapping.  port: the "port" entry is
\* absent, a numeral, or something int() rejects.  cred: config["config"], 0
\* when it is missing or is no usable service account, else the blob's identity.
\* index: whether config["index"] is set (elasticsearch only).
Configs ==
    [port : {"absent", "num", "bad"}, cred : 0..NCreds, index : BOOLEAN]

\* The configs enumerated for a request of each type: a branch of
\* connect_to_db, get_schema and execute_query reads only the entries
\* varied here; the others are left at their first value.
RequestConfigs(db_type) ==
    {None} \cup
    { c \in Configs :
        /\ (db_type # "firebase" => c.cred = 0)
        /\ (db_type = "firebase" => c.port = "absent")
        /\ (db_type # "elasticsearch" => c.index = FALSE) }

\* int(config.get("port", <default>)) of each branch
DefaultPort(db_type) ==
    CASE db_type = "mysql" -> 3306
      [] db_type = "postgres" -> 5432
      [] db_type = "mongodb" -> 27017
      [] db_type = "redis" -> 6379
      [] db_type = "elasticsearch" -> 9200
      [] OTHER -> 0

\* 7000 stands for the numeral a request gives.
ResolvePort(db_type, config) ==
    IF config.port = "absent" THEN DefaultPort(db_type) ELSE 7000

\* The client object a driver constructor returns: its driver kind, its
\* identity, and what it is bound to (the port for the network drivers, the
\* default app's credential for firestore.client()).
Client(kind, id, port, cred) ==
    [kind |-> kind, id |-> id, port |-> port, cred |-> cred]

Raise(cls, cause, driver) ==
    [ok |-> FALSE, exc |-> cls, cause |-> cause, driverCalled |-> driver,
     conn |-> None, app |-> firebase_app]

Return(conn, app) ==
    [ok |-> TRUE, exc |-> "", cause |-> "", driverCalled |-> TRUE,
     conn |-> conn, app |-> app]

\* The firebase branch (lines 63-77).  credentials.Certificate(sa) and
\* initialize_app run only when no default app exists; firestore.client()
\* returns the default app's client whatever `config` holds.  driverOk: the
\* app the credential initialises can produce a Firestore client (that is a
\* property of the app, so later calls on the same app answer alike).
FirebaseBranch(config, driverOk) ==
    LET app == IF firebase_app = None
               THEN [cred |-> config.cred, id |-> nconn + 1, usable |-> driverOk]
               ELSE firebase_app
    IN IF firebase_app = None /\ config.cred = 0
       THEN Raise("ConnectionError", "Certificate", TRUE)
       ELSE IF app.usable
       THEN Return(Client("firebase", app.id, 0, app.cred), app)
       ELSE [Raise("ConnectionError", "firestore.client", TRUE) EXCEPT !.app = app]

\* The exception class that leaves connect_to_db for an unsupported type:
\* the ValueError / NotImplementedError of lines 86-90 is raised inside the
\* try block and re-raised by line 93.
WrapUnsupportedMutantBare(db_type) ==
    IF db_type = "custom"
    THEN Raise("NotImplementedError", "Custom DB not implemented yet", FALSE)
    ELSE Raise("ValueError", "Unsupported database type", FALSE)

WrapUnsupported(db_type) ==
    IF db_type = "custom"
    THEN Raise("ConnectionError", "Custom DB not implemented yet", FALSE)
    ELSE Raise("ConnectionError", "Unsupported database type", FALSE)

\* connect_to_db(db_type, config).  driverOk: whether the driver constructor
\* (and, for mysql/postgres, the network handshake it performs) succeeds.
connect_to_db(db_type, config, driverOk) ==
    IF db_type \notin SupportedKinds
    THEN WrapUnsupported(db_type)
    ELSE IF config = None
    THEN Raise("ConnectionError", "AttributeError", FALSE)   \* None.get
    ELSE IF db_type = "firebase"
    THEN FirebaseBranch(config, driverOk)
    ELSE IF config.port = "bad"
    THEN Raise("ConnectionError", "int()", FALSE)
    ELSE IF driverOk
    THEN Return(Client(db_type, nconn + 1, ResolvePort(db_type, config), 0),
                firebase_app)
    ELSE Raise("ConnectionError", "driver", TRUE)

-----------------------------------------------------------------------------
(* /connect *)

Active(db_type, conn, config) ==
    [db_type |-> db_type, conn |-> conn, config |-> config]

\* What the route stores on success (lines 20-24).
StoreActiveMutantOnFailure(r, db_type, config) ==
    IF r.ok THEN Active(db_type, r.conn, config) ELSE Active(db_type, None, config)

StoreActive(r, db_type, config) ==
    IF r.ok THEN Active(db_type, r.conn, config) ELSE connections

connect(db_type, config, driverOk) ==
    /\ connLog.n < MaxConnects
    /\ LET r == connect_to_db(db_type, config, driverOk)
       IN /\ connections' = StoreActive(r, db_type, config)
          /\ firebase_app' = r.app
          /\ nconn' = IF (r.ok /\ r.conn.id = nconn + 1) \/ (r.app # firebase_app)
                      THEN nconn + 1 ELSE nconn
          /\ connLog' = [n |-> connLog.n + 1,
                         db_type |-> db_type, config |-> config,
                         ok |-> r.ok, exc |-> r.exc, cause |-> r.cause,
                         driverCalled |-> r.driverCalled, driverOk |-> driverOk,
                         status |-> IF r.ok THEN 200 ELSE 400,
                         before |-> connections,
                         appBefore |-> firebase_app]
    /\ UNCHANGED <<pipe, pc, act, stages, failed, inCall, resp, used>>

Connect ==
    \E db_type \in RequestTypes, driverOk \in BOOLEAN :
        \E config \in RequestConfigs(db_type) :
            connect(db_type, config, driverOk)

-----------------------------------------------------------------------------
(* /query *)

Reqs == 1..NReq

Prompts == {"", "show all"}

StageOrder == <<"schema", "plan", "exec", "post">>

ErrorResponse(msg) ==
    [status |-> 400, keys |-> {"error"}, error |-> msg]

OkResponse(chart) ==
    [status |-> 200,
     keys |-> {"sql", "summary", "table_html"} \cup (IF chart THEN {"chart"} ELSE {}),
     error |-> ""]

\* Where query() goes when a stage raises: the except clause of lines 72-74.
AfterRaiseMutantContinue(stage) ==
    CASE stage = "schema" -> "plan"
      [] stage = "plan" -> "exec"
      [] OTHER -> "done"

AfterRaise(stage) == "done"

StageRaises(r, stage) ==
    /\ pc' = [pc EXCEPT ![r] = AfterRaise(stage)]
    /\ failed' = [failed EXCEPT ![r] = stage]
    /\ resp' = [resp EXCEPT ![r] = ErrorResponse("stage")]

\* get_schema touches the driver for every kind but redis (line 155), and for
\* elasticsearch only when config["index"] is set (lines 148-152).
SchemaUsesDriver(a) ==
    /\ a.db_type # "redis"
    /\ (a.db_type = "elasticsearch" => a.config.index)

\* db_type, conn, config as a stage of request r sees them: the local
\* variables assigned in lines 35-38.
LocalsMutantReread(r) == connections

Locals(r) == act[r]

\* The arguments of a stage's call: get_schema(conn, db_type, config),
\* natural_to_sql(user_prompt, schema, db_type),
\* execute_query(conn, db_type, plan_or_sql, config).
Passed(stage, a) ==
    [stage |-> stage, db_type |-> a.db_type,
     conn |-> IF stage = "plan" THEN None ELSE a.conn,
     config |-> IF stage = "plan" THEN None ELSE a.config]

\* Lines 32-43: the registry check, the single read of the active entry, the
\* prompt check.
QueryStart(r, prompt) ==
    /\ pc[r] = "idle"
    /\ IF connections = None
       THEN /\ pc' = [pc EXCEPT ![r] = "done"]
            /\ resp' = [resp EXCEPT ![r] = ErrorResponse("No active database connection")]
            /\ UNCHANGED act
       ELSE /\ act' = [act EXCEPT ![r] = connections]
            /\ IF prompt = ""
               THEN /\ pc' = [pc EXCEPT ![r] = "done"]
                    /\ resp' = [resp EXCEPT ![r] = ErrorResponse("Empty prompt")]
               ELSE /\ pc' = [pc EXCEPT ![r] = "schema"]
                    /\ UNCHANGED resp
    /\ UNCHANGED <<pipe, connections, firebase_app, nconn, connLog, stages, failed, inCall, used>>

\* Line 47, get_schema: entered.
SchemaCall(r) ==
    /\ pc[r] = "schema"
    /\ stages' = [stages EXCEPT ![r] = Append(@, "schema")]
    /\ used' = [used EXCEPT ![r] = Append(@, Passed("schema", Locals(r)))]
    /\ IF SchemaUsesDriver(Locals(r))
       THEN /\ pc' = [pc EXCEPT ![r] = "schema_call"]
            /\ inCall' = [inCall EXCEPT ![r] = Locals(r).conn.id]
       ELSE /\ pc' = [pc EXCEPT ![r] = "plan"]
            /\ UNCHANGED inCall
    /\ UNCHANGED <<pipe, connections, firebase_app, nconn, connLog, act, failed, resp>>

\* Line 47, get_schema: the driver answers or raises.
SchemaReturn(r, ok) ==
    /\ pc[r] = "schema_call"
    /\ inCall' = [inCall EXCEPT ![r] = 0]
    /\ IF ok
       THEN /\ pc' = [pc EXCEPT ![r] = "plan"]
            /\ UNCHANGED <<failed, resp>>
       ELSE StageRaises(r, "schema")
    /\ UNCHANGED <<pipe, connections, firebase_app, nconn, connLog, act, stages, used>>

\* Line 50, natural_to_sql: one text-generation call, then the
\* post-processing of NaturalToSql below (ok: it returned a plan).
PlanStage(r, ok) ==
    /\ pc[r] = "plan"
    /\ stages' = [stages EXCEPT ![r] = Append(@, "plan")]
    /\ used' = [used EXCEPT ![r] = Append(@, Passed("plan", Locals(r)))]
    /\ IF ok
       THEN /\ pc' = [pc EXCEPT ![r] = "exec"]
            /\ UNCHANGED <<failed, resp>>
       ELSE StageRaises(r, "plan")
    /\ UNCHANGED <<pipe, connections, firebase_app, nconn, connLog, act, inCall>>

\* Line 53, execute_query: entered.  early: the plan is rejected before the
\* driver is touched (a missing "collection", a missing index, ...).
ExecCall(r, early) ==
    /\ pc[r] = "exec"
    /\ stages' = [stages EXCEPT ![r] = Append(@, "exec")]
    /\ used' = [used EXCEPT ![r] = Append(@, Passed("exec", Locals(r)))]
    /\ IF early
       THEN /\ StageRaises(r, "exec")
            /\ UNCHANGED inCall
       ELSE /\ pc' = [pc EXCEPT ![r] = "exec_call"]
            /\ inCall' = [inCall EXCEPT ![r] = Locals(r).conn.id]
            /\ UNCHANGED <<failed, resp>>
    /\ UNCHANGED <<pipe, connections, firebase_app, nconn, connLog, act>>

\* Line 53, execute_query: the driver answers or raises.
ExecReturn(r, ok) ==
    /\ pc[r] = "exec_call"
    /\ inCall' = [inCall EXCEPT ![r] = 0]
    /\ IF ok
       THEN /\ pc' = [pc EXCEPT ![r] = "post"]
            /\ UNCHANGED <<failed, resp>>
       ELSE StageRaises(r, "exec")
    /\ UNCHANGED <<pipe, connections, firebase_app, nconn, connLog, act, stages, used>>

\* Lines 56-70: generate_ai_response (a chart failure is swallowed inside it,
\* ai_summary.py lines 159-163), the table rendering, the response.
PostStage(r, outcome) ==
    /\ pc[r] = "post"
    /\ stages' = [stages EXCEPT ![r] = Append(@, "post")]
    /\ IF outcome = "raise"
       THEN StageRaises(r, "post")
       ELSE /\ pc' = [pc EXCEPT ![r] = "done"]
            /\ resp' = [resp EXCEPT ![r] = OkResponse(outcome = "chart")]
            /\ UNCHANGED failed
    /\ UNCHANGED <<pipe, connections, firebase_app, nconn, connLog, act, inCall, used>>

Query ==
    \E r \in Reqs :
        \/ \E prompt \in Prompts : QueryStart(r, prompt)
        \/ SchemaCall(r)
        \/ \E ok \in BOOLEAN : SchemaReturn(r, ok)
        \/ \E ok \in BOOLEAN : PlanStage(r, ok)
        \/ \E early \in BOOLEAN : ExecCall(r, early)
        \/ \E ok \in BOOLEAN : ExecReturn(r, ok)
        \/ \E outcome \in {"chart", "nochart", "raise"} : PostStage(r, outcome)

-----------------------------------------------------------------------------
(* The routes *)

NoLog ==
    [n |-> 0, db_type |-> "", config |-> None, ok |-> FALSE, exc |-> "",
     cause |-> "", driverCalled |-> FALSE, driverOk |-> FALSE, status |-> 0, before |-> None,
     appBefore |-> None]

InitRoutes ==
    /\ connections = None
    /\ firebase_app = None
    /\ nconn = 0
    /\ connLog = NoLog
    /\ pc = [r \in Reqs |-> "idle"]
    /\ act = [r \in Reqs |-> None]
    /\ stages = [r \in Reqs |-> <<>>]
    /\ failed = [r \in Reqs |-> "none"]
    /\ inCall = [r \in Reqs |-> 0]
    /\ resp = [r \in Reqs |-> None]
    /\ used = [r \in Reqs |-> <<>>]

Init == InitRoutes /\ pipe = None

Next == Connect \/ Query

Spec == Init /\ [][Next]_vars

\* /connect requests alone, over every request type and config.
SpecConnect == Init /\ [][Connect]_vars

-----------------------------------------------------------------------------
(* C1 *)

\* A config every entry of which the requested branch can use.
WellFormed(db_type, config) ==
    /\ config # None
    /\ IF db_type = "firebase" THEN config.cred # 0 ELSE config.port # "bad"

\* The driver produces a client for this request: the constructor succeeds,
\* or, for firebase with a default app already initialised, that app does.
DriverAccepts(log) ==
    IF log.db_type = "firebase" /\ log.appBefore # None
    THEN log.appBefore.usable
    ELSE log.driverOk

\* C1: for every supported kind a connect request with a well-formed config
\* (and a driver that accepts it) stores an active entry whose recorded kind,
\* client kind and config are the requested ones; a connect request that
\* fails answers 400 with a ConnectionError message and leaves
\* connections["active"] exactly as it was before the request.
C1_ConnectStoresOrLeaves ==
    connLog.n > 0 =>
        /\ ( /\ connLog.db_type \in SupportedKinds
             /\ WellFormed(connLog.db_type, connLog.config)
             /\ DriverAccepts(connLog) ) => connLog.ok
        /\ connLog.ok =>
              /\ connLog.db_type \in SupportedKinds
              /\ connLog.status = 200
              /\ connections # None
              /\ connections.db_type = connLog.db_type
              /\ connections.conn.kind = connLog.db_type
              /\ connections.config = connLog.config
        /\ ~connLog.ok =>
              /\ connLog.status = 400
              /\ connLog.exc = "ConnectionError"
              /\ connections = connLog.before

\* A connect request failed while an earlier one's handle was stored.
C1_Witness ==
    /\ connLog.n = 2
    /\ ~connLog.ok
    /\ connLog.db_type \in SupportedKinds
    /\ connections # None
    /\ connections.db_type # connLog.db_type

-----------------------------------------------------------------------------
(* C2 *)

-----------------------------------------------------------------------------
(* C3 *)

IsPrefix(s, t) == Len(s) <= Len(t) /\ s = SubSeq(t, 1, Len(s))

\* C3: the stages of one query request are invoked in the order schema,
\* plan, exec, post; once a stage raised no later stage is invoked and the
\* response is the error alone; a response with a query, a table and a
\* summary is sent only after all four stages completed.
C3_StagesInOrderAbortOnFailure ==
    \A r \in Reqs :
        /\ IsPrefix(stages[r], StageOrder)
        /\ failed[r] # "none" =>
              /\ stages[r] # <<>>
              /\ stages[r][Len(stages[r])] = failed[r]
              /\ pc[r] = "done"
              /\ inCall[r] = 0
              /\ resp[r] # None
              /\ resp[r].status = 400
              /\ resp[r].keys = {"error"}
        /\ (resp[r] # None /\ resp[r].keys # {"error"}) =>
              /\ stages[r] = StageOrder
              /\ failed[r] = "none"

\* A request whose execution stage raised after two completed stages.
C3_Witness ==
    \E r \in Reqs :
        /\ failed[r] = "exec"
        /\ stages[r] = <<"schema", "plan", "exec">>
        /\ resp[r] # None

-----------------------------------------------------------------------------
(* C9 *)

\* C9 as stated: no two query requests are inside a driver call on the same
\* underlying client at the same time.
C9_DriverCallsSerialized ==
    \A r1, r2 \in Reqs :
        (r1 # r2 /\ inCall[r1] # 0) => inCall[r1] # inCall[r2]

-----------------------------------------------------------------------------
(* C10 *)

\* The client was constructed from this kind and this config.
MadeFrom(conn, db_type, config) ==
    /\ conn.kind = db_type
    /\ IF db_type = "firebase"
       THEN conn.cred = config.cred
       ELSE conn.port = ResolvePort(db_type, config)

\* C10 as stated: after any sequence of connect requests the active entry
\* pairs the client with the config (and kind) it was created from.
C10_ActivePairsClientWithItsConfig ==
    connections # None =>
        MadeFrom(connections.conn, connections.db_type, connections.config)

-----------------------------------------------------------------------------
(* Text: a str is the sequence of its characters *)

\* U+0060, which a string literal of this notation cannot hold
BT == "<backtick>"

\* The characters of the texts below, in code-point order.
Ascii ==
    <<"\t", "\n", "\r", " ", "\"", ",", "-",
      "0", "1", "2", "3", "4", "5", "6", "7", "8", "9", ":", ";",
      "A", "B", "C", "D", "E", "F", "G", "H", "I", "J", "K", "L", "M",
      "N", "O", "P", "Q", "R", "S", "T", "U", "V", "W", "X", "Y", "Z",
      "[", "]", "_", BT,
      "a", "b", "c", "d", "e", "f", "g", "h", "i", "j", "k", "l", "m",
      "n", "o", "p", "q", "r", "s", "t", "u", "v", "w", "x", "y", "z",
      "{", "}">>

\* ord(c), up to an order-preserving renumbering
Ord(c) == CHOOSE i \in 1..Len(Ascii) : Ascii[i] = c

Digits == {"0", "1", "2", "3", "4", "5", "6", "7", "8", "9"}

UpperLetters ==
    <<"A", "B", "C", "D", "E", "F", "G", "H", "I", "J", "K", "L", "M",
      "N", "O", "P", "Q", "R", "S", "T", "U", "V", "W", "X", "Y", "Z">>

LowerLetters ==
    <<"a", "b", "c", "d", "e", "f", "g", "h", "i", "j", "k", "l", "m",
      "n", "o", "p", "q", "r", "s", "t", "u", "v", "w", "x", "y", "z">>

Range(f) == { f[i] : i \in DOMAIN f }

\* the class \w of the re module
WordChars == Digits \cup Range(UpperLetters) \cup Range(LowerLetters) \cup {"_"}

\* what str.strip() removes
Whitespace == {" ", "\t", "\n", "\r"}

\* str.upper() / str.lower() on one character
UpperChar(c) ==
    IF c \in Range(LowerLetters)
    THEN UpperLetters[CHOOSE i \in 1..26 : LowerLetters[i] = c]
    ELSE c

LowerChar(c) ==
    IF c \in Range(UpperLetters)
    THEN LowerLetters[CHOOSE i \in 1..26 : UpperLetters[i] = c]
    ELSE c

Upper(s) == [i \in 1..Len(s) |-> UpperChar(s[i])]

Lower(s) == [i \in 1..Len(s) |-> LowerChar(s[i])]

\* s[i-1:] (1-based i)
Suffix(s, i) == SubSeq(s, i, Len(s))

\* s.startswith(w, i-1)
StartsWithAt(s, i, w) ==
    /\ i + Len(w) - 1 <= Len(s)
    /\ SubSeq(s, i, i + Len(w) - 1) = w

\* s.strip(chars)
StripChars(s, chars) ==
    LET keep == { i \in 1..Len(s) : s[i] \notin chars }
    IN IF keep = {} THEN <<>>
       ELSE LET lo == CHOOSE i \in keep : \A j \in keep : i <= j
                hi == CHOOSE i \in keep : \A j \in keep : j <= i
            IN SubSeq(s, lo, hi)

\* Python's order on str: by code point, a proper prefix first.
StrLess(a, b) ==
    LET differ == { i \in 1..Len(a) : i > Len(b) \/ a[i] # b[i] }
    IN IF differ = {} THEN Len(a) < Len(b)
       ELSE LET i == CHOOSE i \in differ : \A j \in differ : i <= j
            IN i <= Len(b) /\ Ord(a[i]) < Ord(b[i])

-----------------------------------------------------------------------------
(* _strip_code_fences *)

Fence == <<BT, BT, BT>>

\* The end of the match of \w* at position i: the first j >= i that is past
\* the end or not a word character.
WordEnd(s, i) ==
    IF i > Len(s) THEN i
    ELSE CHOOSE j \in i..(Len(s) + 1) :
            /\ j > Len(s) \/ s[j] \notin WordChars
            /\ \A k \in i..(j - 1) : s[k] \in WordChars

\* The part of the fence pattern after the three backticks: (?:\w+)?
FenceTagEnd(s, i) == WordEnd(s, i)

\* re.sub(r"```(?:\w+)?", "", s), scanning from position i: the text up to
\* the leftmost match at or after i is kept, the match is dropped, and the
\* scan goes on behind it.
RECURSIVE SubFences(_, _)
SubFences(s, i) ==
    LET starts == { f \in i..Len(s) : StartsWithAt(s, f, Fence) }
    IN IF starts = {} THEN Suffix(s, i)
       ELSE LET f == CHOOSE f \in starts : \A g \in starts : f <= g
            IN SubSeq(s, i, f - 1) \o SubFences(s, FenceTagEnd(s, f + 3))

StripFenceChars == {BT, " ", "\n", "\r", "\t"}

_strip_code_fences(s) == StripChars(SubFences(s, 1), StripFenceChars)

-----------------------------------------------------------------------------
(* natural_to_sql, SQL kinds: the verb search of lines 211-214 *)

SqlVerbs ==
    { <<"S", "E", "L", "E", "C", "T">>, <<"I", "N", "S", "E", "R", "T">>,
      <<"U", "P", "D", "A", "T", "E">>, <<"D", "E", "L", "E", "T", "E">> }

\* (SELECT|INSERT|UPDATE|DELETE)\b matches at position i under re.I: a verb
\* in any case, followed by the end of the text or by a non-word character.
VerbAtMutantCaseSensitive(q, i) ==
    \E v \in SqlVerbs :
        /\ StartsWithAt(q, i, v)
        /\ (i + Len(v) > Len(q) \/ q[i + Len(v)] \notin WordChars)

VerbAt(q, i) ==
    \E v \in SqlVerbs :
        /\ i + Len(v) - 1 <= Len(q)
        /\ Upper(SubSeq(q, i, i + Len(v) - 1)) = v
        /\ (i + Len(v) > Len(q) \/ q[i + Len(v)] \notin WordChars)

\* re.search(...): the leftmost position where the pattern matches, or 0
SearchVerb(q) ==
    IF \E i \in 1..Len(q) : VerbAt(q, i)
    THEN CHOOSE i \in 1..Len(q) :
            VerbAt(q, i) /\ \A j \in 1..(i - 1) : ~VerbAt(q, j)
    ELSE 0

\* resp.text is None: a one-element sequence no str is equal to
NoText == <<"<None>">>

\* resp.text or ""
TextOrEmpty(text) == IF text = NoText THEN <<>> ELSE text

\* Lines 211-214.  With re.S the match runs to the end of the text.
ExtractSql(text) ==
    LET query == _strip_code_fences(TextOrEmpty(text))
        m == SearchVerb(query)
    IN IF m # 0 THEN StripChars(Suffix(query, m), Whitespace) ELSE query

-----------------------------------------------------------------------------
(* json.loads *)

\* A decoded JSON value.  t: "obj", "arr", "str", "num" or "lit".  s: the
\* characters of a string, a number or a literal.  keys/items: an object's
\* keys and values in order of appearance, or an array's items.
JV(t, s, keys, items) == [t |-> t, s |-> s, keys |-> keys, items |-> items]

JsonWhitespace == {" ", "\t", "\n", "\r"}

\* WHITESPACE.match(s, i).end(): the first j >= i that is past the end or
\* not whitespace
SkipWs(s, i) ==
    IF i > Len(s) THEN i
    ELSE CHOOSE j \in i..(Len(s) + 1) :
            /\ j > Len(s) \/ s[j] \notin JsonWhitespace
            /\ \A k \in i..(j - 1) : s[k] \in JsonWhitespace

ParseFail == [ok |-> FALSE, next |-> 0, val |-> JV("none", <<>>, <<>>, <<>>)]

Parsed(val, next) == [ok |-> TRUE, next |-> next, val |-> val]

\* A string starting at the quote at position i.  The texts hold no
\* backslash; a control character inside a string is rejected (strict=True).
\* The position of the closing quote, or 0 when the string does not end.
StringEnd(s, i) ==
    LET stops == { j \in i..Len(s) : s[j] \in {"\"", "\n", "\r", "\t"} }
    IN IF stops = {} THEN 0
       ELSE LET j == CHOOSE j \in stops : \A k \in stops : j <= k
            IN IF s[j] = "\"" THEN j ELSE 0

ParseString(s, i) ==
    LET e == StringEnd(s, i + 1)
    IN IF e = 0 THEN ParseFail
       ELSE Parsed(JV("str", SubSeq(s, i + 1, e - 1), <<>>, <<>>), e + 1)

DigitsEnd(s, i) ==
    IF i > Len(s) THEN i
    ELSE CHOOSE j \in i..(Len(s) + 1) :
            /\ j > Len(s) \/ s[j] \notin Digits
            /\ \A k \in i..(j - 1) : s[k] \in Digits

\* -?(0|[1-9]\d*): the integer part of NUMBER_RE (the texts hold no "." and
\* no exponent)
ParseNumber(s, i) ==
    LET d == IF s[i] = "-" THEN i + 1 ELSE i
        e == IF d <= Len(s) /\ s[d] = "0" THEN d + 1 ELSE DigitsEnd(s, d)
    IN IF e = d THEN ParseFail
       ELSE Parsed(JV("num", SubSeq(s, i, e - 1), <<>>, <<>>), e)

JsonLiterals ==
    { <<"t", "r", "u", "e">>, <<"f", "a", "l", "s", "e">>, <<"n", "u", "l", "l">> }

\* the constants the default parse_constant of json.loads also accepts
PyConstants == { <<"N", "a", "N">> }

ParseLiteral(s, i, lits) ==
    IF \E w \in lits : StartsWithAt(s, i, w)
    THEN LET w == CHOOSE w \in lits : StartsWithAt(s, i, w)
         IN Parsed(JV("lit", w, <<>>, <<>>), i + Len(w))
    ELSE ParseFail

RECURSIVE ParseValue(_, _, _), ParseMembers(_, _, _, _, _), ParseElements(_, _, _, _)

\* scanner.py _scan_once at position i; consts: the accepted constants
ParseValue(s, i, consts) ==
    IF i > Len(s) THEN ParseFail
    ELSE IF s[i] = "\"" THEN ParseString(s, i)
    ELSE IF s[i] = "{"
    THEN LET j == SkipWs(s, i + 1)
         IN IF j <= Len(s) /\ s[j] = "}"
            THEN Parsed(JV("obj", <<>>, <<>>, <<>>), j + 1)
            ELSE ParseMembers(s, j, consts, <<>>, <<>>)
    ELSE IF s[i] = "["
    THEN LET j == SkipWs(s, i + 1)
         IN IF j <= Len(s) /\ s[j] = "]"
            THEN Parsed(JV("arr", <<>>, <<>>, <<>>), j + 1)
            ELSE ParseElements(s, j, consts, <<>>)
    ELSE IF s[i] \in Digits \cup {"-"} THEN ParseNumber(s, i)
    ELSE ParseLiteral(s, i, JsonLiterals \cup consts)

\* decoder.py JSONObject: "key" : value, then "," or "}"
ParseMembers(s, i, consts, keys, items) ==
    IF i > Len(s) \/ s[i] # "\"" THEN ParseFail
    ELSE LET k == ParseString(s, i)
         IN IF ~k.ok THEN ParseFail
            ELSE LET c == SkipWs(s, k.next)
                 IN IF c > Len(s) \/ s[c] # ":" THEN ParseFail
                    ELSE LET v == ParseValue(s, SkipWs(s, c + 1), consts)
                         IN IF ~v.ok THEN ParseFail
                            ELSE LET e == SkipWs(s, v.next)
                                     ks == Append(keys, k.val.s)
                                     vs == Append(items, v.val)
                                 IN IF e > Len(s) THEN ParseFail
                                    ELSE IF s[e] = "}"
                                    THEN Parsed(JV("obj", <<>>, ks, vs), e + 1)
                                    ELSE IF s[e] = ","
                                    THEN ParseMembers(s, SkipWs(s, e + 1), consts, ks, vs)
                                    ELSE ParseFail

\* decoder.py JSONArray: value, then "," or "]"
ParseElements(s, i, consts, items) ==
    LET v == ParseValue(s, i, consts)
    IN IF ~v.ok THEN ParseFail
       ELSE LET e == SkipWs(s, v.next)
                vs == Append(items, v.val)
            IN IF e > Len(s) THEN ParseFail
               ELSE IF s[e] = "]"
               THEN Parsed(JV("arr", <<>>, <<>>, vs), e + 1)
               ELSE IF s[e] = ","
               THEN ParseElements(s, SkipWs(s, e + 1), consts, vs)
               ELSE ParseFail

\* decoder.py decode: leading whitespace, one value, trailing whitespace,
\* nothing else ("Extra data")
Decode(s, consts) ==
    LET v == ParseValue(s, SkipWs(s, 1), consts)
    IN IF v.ok /\ SkipWs(s, v.next) = Len(s) + 1 THEN v ELSE ParseFail

json_loads(s) == Decode(s, PyConstants)

\* resp.text or "{}"
TextOrBraces(text) == IF text = NoText \/ text = <<>> THEN <<"{", "}">> ELSE text

\* Lines 233, 254, 268, 278: json.loads(_strip_code_fences(resp.text or "{}"))
ParsePlan(text) == json_loads(_strip_code_fences(TextOrBraces(text)))

-----------------------------------------------------------------------------
(* Generated texts: what resp.text can hold *)

\* Here is your query:\n'''sql\nSELECT id FROM t;\n'''
SpecExampleText ==
    <<"H", "e", "r", "e", " ", "i", "s", " ", "y", "o", "u", "r", " ", "q",
      "u", "e", "r", "y", ":", "\n", BT, BT, BT, "s", "q", "l", "\n", "S",
      "E", "L", "E", "C", "T", " ", "i", "d", " ", "F", "R", "O", "M", " ",
      "t", ";", "\n", BT, BT, BT>>

\* SELECT id FROM t;
SelectIdFromT ==
    <<"S", "E", "L", "E", "C", "T", " ", "i", "d", " ", "F", "R", "O", "M",
      " ", "t", ";">>

\* I cannot help
ProseText ==
    <<"I", " ", "c", "a", "n", "n", "o", "t", " ", "h", "e", "l", "p">>

\* please update t: select 1
LowerVerbText ==
    <<"p", "l", "e", "a", "s", "e", " ", "u", "p", "d", "a", "t", "e", " ",
      "t", ":", " ", "s", "e", "l", "e", "c", "t", " ", "1">>

\* {"command":"get","args":["k"]}
RedisGetText ==
    <<"{", "\"", "c", "o", "m", "m", "a", "n", "d", "\"", ":", "\"", "g",
      "e", "t", "\"", ",", "\"", "a", "r", "g", "s", "\"", ":", "[", "\"",
      "k", "\"", "]", "}">>

\* {"command":"SET","args":["k","v"]}
RedisSetText ==
    <<"{", "\"", "c", "o", "m", "m", "a", "n", "d", "\"", ":", "\"", "S",
      "E", "T", "\"", ",", "\"", "a", "r", "g", "s", "\"", ":", "[", "\"",
      "k", "\"", ",", "\"", "v", "\"", "]", "}">>

\* '''json\n{"command": "HGETALL", "args": ["h"]}\n'''
RedisHgetallText ==
    <<BT, BT, BT, "j", "s", "o", "n", "\n", "{", "\"", "c", "o", "m", "m",
      "a", "n", "d", "\"", ":", " ", "\"", "H", "G", "E", "T", "A", "L", "L",
      "\"", ",", " ", "\"", "a", "r", "g", "s", "\"", ":", " ", "[", "\"",
      "h", "\"", "]", "}", "\n", BT, BT, BT>>

\* {"command":"SCAN","args":[0]}
RedisScanText ==
    <<"{", "\"", "c", "o", "m", "m", "a", "n", "d", "\"", ":", "\"", "S",
      "C", "A", "N", "\"", ",", "\"", "a", "r", "g", "s", "\"", ":", "[",
      "0", "]", "}">>

\* {"command":"SSCAN","args":["s",0]}
RedisSscanText ==
    <<"{", "\"", "c", "o", "m", "m", "a", "n", "d", "\"", ":", "\"", "S",
      "S", "C", "A", "N", "\"", ",", "\"", "a", "r", "g", "s", "\"", ":",
      "[", "\"", "s", "\"", ",", "0", "]", "}">>

\* {"command":"GET"}
RedisNoArgsText ==
    <<"{", "\"", "c", "o", "m", "m", "a", "n", "d", "\"", ":", "\"", "G",
      "E", "T", "\"", "}">>

\* {"collection":"c","operation":"find","filter":{},"limit":2}
MongoFindText ==
    <<"{", "\"", "c", "o", "l", "l", "e", "c", "t", "i", "o", "n", "\"", ":",
      "\"", "c", "\"", ",", "\"", "o", "p", "e", "r", "a", "t", "i", "o",
      "n", "\"", ":", "\"", "f", "i", "n", "d", "\"", ",", "\"", "f", "i",
      "l", "t", "e", "r", "\"", ":", "{", "}", ",", "\"", "l", "i", "m", "i",
      "t", "\"", ":", "2", "}">>

\* {"collection":"c"}
MongoDefaultText ==
    <<"{", "\"", "c", "o", "l", "l", "e", "c", "t", "i", "o", "n", "\"", ":",
      "\"", "c", "\"", "}">>

\* {"collection":"c","operation":"aggregate","pipeline":[]}
MongoAggregateText ==
    <<"{", "\"", "c", "o", "l", "l", "e", "c", "t", "i", "o", "n", "\"", ":",
      "\"", "c", "\"", ",", "\"", "o", "p", "e", "r", "a", "t", "i", "o",
      "n", "\"", ":", "\"", "a", "g", "g", "r", "e", "g", "a", "t", "e",
      "\"", ",", "\"", "p", "i", "p", "e", "l", "i", "n", "e", "\"", ":",
      "[", "]", "}">>

\* {"collection":"c","operation":"drop"}
MongoDropText ==
    <<"{", "\"", "c", "o", "l", "l", "e", "c", "t", "i", "o", "n", "\"", ":",
      "\"", "c", "\"", ",", "\"", "o", "p", "e", "r", "a", "t", "i", "o",
      "n", "\"", ":", "\"", "d", "r", "o", "p", "\"", "}">>

\* {"collection":"c","filters":[["a","==",1]],"order_by":["a","desc"],"limit":2,"select":["a"]}
FirestoreText ==
    <<"{", "\"", "c", "o", "l", "l", "e", "c", "t", "i", "o", "n", "\"", ":",
      "\"", "c", "\"", ",", "\"", "f", "i", "l", "t", "e", "r", "s", "\"",
      ":", "[", "[", "\"", "a", "\"", ",", "\"", "=", "=", "\"", ",", "1",
      "]", "]", ",", "\"", "o", "r", "d", "e", "r", "_", "b", "y", "\"", ":",
      "[", "\"", "a", "\"", ",", "\"", "d", "e", "s", "c", "\"", "]", ",",
      "\"", "l", "i", "m", "i", "t", "\"", ":", "2", ",", "\"", "s", "e",
      "l", "e", "c", "t", "\"", ":", "[", "\"", "a", "\"", "]", "}">>

\* {"collection":"c","filters":null,"order_by":null,"limit":null,"select":null}
FirestoreNullsText ==
    <<"{", "\"", "c", "o", "l", "l", "e", "c", "t", "i", "o", "n", "\"", ":",
      "\"", "c", "\"", ",", "\"", "f", "i", "l", "t", "e", "r", "s", "\"",
      ":", "n", "u", "l", "l", ",", "\"", "o", "r", "d", "e", "r", "_", "b",
      "y", "\"", ":", "n", "u", "l", "l", ",", "\"", "l", "i", "m", "i", "t",
      "\"", ":", "n", "u", "l", "l", ",", "\"", "s", "e", "l", "e", "c", "t",
      "\"", ":", "n", "u", "l", "l", "}">>

\* {"query":{"match_all":{}}}
SearchBodyText ==
    <<"{", "\"", "q", "u", "e", "r", "y", "\"", ":", "{", "\"", "m", "a",
      "t", "c", "h", "_", "a", "l", "l", "\"", ":", "{", "}", "}", "}">>

\* [1]
JsonArrayText ==
    <<"[", "1", "]">>

\* "{}"
JsonStringText ==
    <<"\"", "{", "}", "\"">>

FixedTexts ==
    { SpecExampleText, SelectIdFromT, ProseText, LowerVerbText,
      RedisGetText, RedisSetText, RedisHgetallText, RedisScanText,
      RedisSscanText, RedisNoArgsText, MongoFindText, MongoDefaultText,
      MongoAggregateText, MongoDropText, FirestoreText, FirestoreNullsText,
      SearchBodyText, JsonArrayText, JsonStringText,
      <<>>, NoText }

\* Fragments of generated text: a fence, a language tag, a line break, a lone
\* backtick, SQL verbs in both cases, and JSON fragments.
Pieces ==
    { <<BT, BT, BT>>,
      <<"j", "s", "o", "n">>,
      <<"\n">>,
      <<BT>>,
      <<"S", "E", "L", "E", "C", "T", " ", "1">>,
      <<"d", "e", "l", "e", "t", "e">>,
      <<"{">>,
      <<"}">>,
      <<"\"", "a", "\"", ":", "1">>,
      <<"N", "a", "N">> }

MaxPieces == 3

RECURSIVE Concats(_)
\* the texts made of at most n fragments
Concats(n) ==
    IF n = 0 THEN { <<>> }
    ELSE LET shorter == Concats(n - 1)
         IN shorter \cup { p \o t : p \in Pieces, t \in shorter }

GeneratedTexts == FixedTexts \cup Concats(MaxPieces)

-----------------------------------------------------------------------------
(* natural_to_sql *)

SqlKinds == {"mysql", "postgres"}

JsonKinds == {"mongodb", "firebase", "elasticsearch", "redis"}

NoPlan == JV("none", <<>>, <<>>, <<>>)

GenRaise(exc) == [ok |-> FALSE, exc |-> exc, sql |-> <<>>, plan |-> NoPlan]

GenSql(sql) == [ok |-> TRUE, exc |-> "", sql |-> sql, plan |-> NoPlan]

GenPlan(plan) == [ok |-> TRUE, exc |-> "", sql |-> <<>>, plan |-> plan]

\* natural_to_sql(prompt, schema, db_type), given the outcome of its one
\* model.generate_content call: llmOk (it answered) and text (resp.text).
natural_to_sql(db_type, llmOk, text) ==
    IF db_type \notin SqlKinds \cup JsonKinds
    THEN GenRaise("ValueError")
    ELSE IF ~llmOk THEN GenRaise("generate_content")
    ELSE IF db_type \in SqlKinds THEN GenSql(ExtractSql(text))
    ELSE LET v == ParsePlan(text)
         IN IF v.ok THEN GenPlan(v.val) ELSE GenRaise("JSONDecodeError")

\* The kinds natural_to_sql is applied to: those a handle can have, and one
\* the function itself rejects.
GenKinds == SupportedKinds \cup {"oracle"}

\* One run of lines 50-53 of query(): the kind read from the registry, the
\* text the model answers with, and whether config["index"] is set.
PipeStart(db_type, text, index) ==
    [phase |-> "text", db_type |-> db_type, text |-> text, index |-> index,
     llmOk |-> FALSE, gen |-> GenRaise(""), drv |-> None, exe |-> None]

InitGen ==
    /\ InitRoutes
    /\ pipe \in { PipeStart(k, t, FALSE) : k \in GenKinds, t \in GeneratedTexts }

Generate ==
    /\ pipe # None
    /\ pipe.phase = "text"
    /\ \E llmOk \in BOOLEAN :
          pipe' = [pipe EXCEPT !.phase = "planned", !.llmOk = llmOk,
                               !.gen = natural_to_sql(pipe.db_type, llmOk, pipe.text)]
    /\ UNCHANGED routeVars

SpecGen == InitGen /\ [][Generate]_vars

\* natural_to_sql returned (or raised) for a text the model produced
Planned(kinds) ==
    /\ pipe.phase = "planned"
    /\ pipe.llmOk
    /\ pipe.db_type \in kinds

-----------------------------------------------------------------------------
(* C7 *)

\* A leading SQL verb occurs in q at position i: one of the four verbs, in
\* upper or lower case letters, ending at a word boundary.
VerbOccursAt(q, i) ==
    \E v \in SqlVerbs :
        /\ i + Len(v) - 1 <= Len(q)
        /\ \A k \in 1..Len(v) : q[i + k - 1] \in {v[k], LowerChar(v[k])}
        /\ (i + Len(v) - 1 = Len(q) \/ q[i + Len(v)] \notin WordChars)

HasFence(q) == \E i \in 1..Len(q) : StartsWithAt(q, i, Fence)

\* C7: for the SQL kinds the plan is free of code-fence markup and is the
\* stripped text from the first occurrence of a leading SQL verb onward (no
\* verb occurs before the point where it starts); a prose line followed by
\* a fenced block holding SELECT id FROM t; gives exactly SELECT id FROM t;
\* and a text without such a verb gives the stripped text verbatim.
C7_SqlExtraction ==
    (pipe # None /\ Planned(SqlKinds)) =>
        LET stripped == _strip_code_fences(TextOrEmpty(pipe.text))
            sql == pipe.gen.sql
            cut == Len(stripped) - Len(sql)
        IN /\ pipe.gen.ok
           /\ ~HasFence(sql)
           /\ cut >= 0
           /\ sql = Suffix(stripped, cut + 1)
           /\ IF \E i \in 1..Len(stripped) : VerbOccursAt(stripped, i)
              THEN /\ VerbOccursAt(sql, 1)
                   /\ \A i \in 1..cut : ~VerbOccursAt(stripped, i)
              ELSE sql = stripped
           /\ pipe.text = SpecExampleText => sql = SelectIdFromT

\* The generated text of the spec's example was post-processed for a SQL kind.
C7_Witness ==
    /\ pipe # None
    /\ Planned(SqlKinds)
    /\ pipe.text = SpecExampleText
    /\ pipe.gen.sql = SelectIdFromT

-----------------------------------------------------------------------------
(* C8 *)

\* RFC 8259 well-formedness (no NaN): json.loads without its extra constants
WellFormedJson(s) == Decode(s, {}).ok

\* C8 as stated: for every non-SQL kind a generated text that is not
\* well-formed JSON once the code fences are stripped (an empty or absent
\* response included) makes natural_to_sql raise; it never returns a plan.
C8_MalformedJsonFails ==
    (pipe # None /\ Planned(JsonKinds)) =>
        (~WellFormedJson(_strip_code_fences(TextOrEmpty(pipe.text))) => ~pipe.gen.ok)

-----------------------------------------------------------------------------
(* execute_query: names *)

K_command == <<"c", "o", "m", "m", "a", "n", "d">>

K_args == <<"a", "r", "g", "s">>

K_collection == <<"c", "o", "l", "l", "e", "c", "t", "i", "o", "n">>

K_operation == <<"o", "p", "e", "r", "a", "t", "i", "o", "n">>

K_filter == <<"f", "i", "l", "t", "e", "r">>

K_projection == <<"p", "r", "o", "j", "e", "c", "t", "i", "o", "n">>

K_sort == <<"s", "o", "r", "t">>

K_limit == <<"l", "i", "m", "i", "t">>

K_pipeline == <<"p", "i", "p", "e", "l", "i", "n", "e">>

K_filters == <<"f", "i", "l", "t", "e", "r", "s">>

K_order_by == <<"o", "r", "d", "e", "r", "_", "b", "y">>

S_find == <<"f", "i", "n", "d">>

S_aggregate == <<"a", "g", "g", "r", "e", "g", "a", "t", "e">>

S_GET == <<"G", "E", "T">>

S_SET == <<"S", "E", "T">>

S_HGETALL == <<"H", "G", "E", "T", "A", "L", "L">>

S_SCAN == <<"S", "C", "A", "N">>

F__id == <<"_", "i", "d">>

F_id == <<"i", "d">>

F_a == <<"a">>

F_B == <<"B">>

C_value == <<"v", "a", "l", "u", "e">>

C_ok == <<"o", "k">>

C_field == <<"f", "i", "e", "l", "d">>

C_key == <<"k", "e", "y">>

C_result == <<"r", "e", "s", "u", "l", "t">>

-----------------------------------------------------------------------------
(* execute_query: values, plans, documents *)

MaxItems == 2   \* length of a sequence a driver returns (documents, rows, keys, ...)

\* A Python value inside a result: t is "none", "str", "int", "bool" or
\* "oid" (a bson ObjectId); v tells values of one type apart.
PyVal(t, v) == [t |-> t, v |-> v]

PyNone == PyVal("none", 0)

\* str(x)
PyStr(x) == PyVal("str", x.v)

\* isinstance(x, (str, int, float))
IsScalar(x) == x.t \in {"str", "int", "bool"}

ExecError(exc) ==
    [ok |-> FALSE, exc |-> exc, rows |-> <<>>, columns |-> <<>>, calls |-> <<>>]

ExecResult(rows, columns) ==
    [ok |-> TRUE, exc |-> "", rows |-> rows, columns |-> columns, calls |-> <<>>]

\* plan.get(key): the value of the last member named key, else None
HasKey(plan, key) == \E i \in 1..Len(plan.keys) : plan.keys[i] = key

Get(plan, key) ==
    IF HasKey(plan, key)
    THEN plan.items[CHOOSE i \in 1..Len(plan.keys) :
                        plan.keys[i] = key /\ \A j \in (i + 1)..Len(plan.keys) : plan.keys[j] # key]
    ELSE NoPlan

\* bool(x) of a decoded JSON value (None for an absent member)
Truthy(x) ==
    CASE x.t = "none" -> FALSE
      [] x.t = "lit" -> x.s = <<"t", "r", "u", "e">> \/ x.s = <<"N", "a", "N">>
      [] x.t = "num" -> x.s \notin { <<"0">>, <<"-", "0">> }
      [] x.t = "str" -> x.s # <<>>
      [] x.t = "arr" -> x.items # <<>>
      [] OTHER -> x.keys # <<>>

\* int(s) accepts the str s: surrounding whitespace, an optional sign, then
\* digits, with single underscores between digits
IntLiteral(s) ==
    LET t == StripChars(s, Whitespace)
        u == IF t # <<>> /\ t[1] = "-" THEN Tail(t) ELSE t
    IN /\ u # <<>>
       /\ \A i \in 1..Len(u) : u[i] \in Digits \cup {"_"}
       /\ u[1] # "_" /\ u[Len(u)] # "_"
       /\ \A i \in 1..(Len(u) - 1) : ~(u[i] = "_" /\ u[i + 1] = "_")

\* int(x) succeeds
CanInt(x) ==
    \/ x.t = "num"
    \/ x.t = "lit" /\ x.s \in { <<"t", "r", "u", "e">>, <<"f", "a", "l", "s", "e">> }
    \/ x.t = "str" /\ IntLiteral(x.s)

\* plan_or_sql if isinstance(plan_or_sql, dict) else json.loads(plan_or_sql):
\* a str is decoded again, any other non-dict makes json.loads raise.
AsPlan(plan) ==
    IF plan.t = "obj" THEN Parsed(plan, 0)
    ELSE IF plan.t = "str" THEN json_loads(plan.s)
    ELSE ParseFail

\* iter(x) succeeds: a list, a dict or a str
Iterable(x) == x.t \in {"arr", "obj", "str"}

\* list(x): the items of a list, the keys of a dict, the characters of a str
Elems(x) ==
    CASE x.t = "arr" -> x.items
      [] x.t = "obj" -> [i \in 1..Len(x.keys) |-> JV("str", x.keys[i], <<>>, <<>>)]
      [] x.t = "str" -> [i \in 1..Len(x.s) |-> JV("str", <<x.s[i]>>, <<>>, <<>>)]
      [] OTHER -> <<>>

\* len(list(x)) when x is unpacked (*args, a, b = x), or -1 when it cannot be
Count(x) == IF Iterable(x) THEN Len(Elems(x)) ELSE -1

\* A document: a function from its keys to values.
Keys(d) == DOMAIN d

\* d.get(c)
DocGet(d, c) == IF c \in DOMAIN d THEN d[c] ELSE PyNone

\* d[k] = x
DocSet(d, k, x) == [c \in DOMAIN d \cup {k} |-> IF c = k THEN x ELSE d[c]]

\* sorted(S) of a set of str
RECURSIVE SortedMutantDescending(_)
SortedMutantDescending(S) ==
    IF S = {} THEN <<>>
    ELSE LET m == CHOOSE x \in S : \A y \in S \ {x} : StrLess(y, x)
         IN <<m>> \o SortedMutantDescending(S \ {m})

RECURSIVE Sorted(_)
Sorted(S) ==
    IF S = {} THEN <<>>
    ELSE LET m == CHOOSE x \in S : \A y \in S \ {x} : StrLess(x, y)
         IN <<m>> \o Sorted(S \ {m})

\* columns = sorted({k for d in docs for k in d.keys()})
\* rows = [[d.get(c) for c in columns] for d in docs]
Tabulate(docs) ==
    LET columns == Sorted(UNION { Keys(docs[i]) : i \in 1..Len(docs) })
    IN ExecResult([i \in 1..Len(docs) |->
                      [j \in 1..Len(columns) |-> DocGet(docs[i], columns[j])]],
                  columns)

-----------------------------------------------------------------------------
(* execute_query: per backend kind *)

\* mysql / postgres (lines 292-299).  d: cur.execute raises, or the cursor's
\* description (None when the statement has no result set) and its rows.
ExecuteSql(d) ==
    IF d.raise THEN ExecError("driver")
    ELSE ExecResult(d.rows, IF d.description = None THEN <<>> ELSE d.description.names)

\* mongodb find (lines 307-321): every returned document gets "_id" set to
\* str(d.get("_id")).
MongoFind(plan, d) ==
    LET sort == Get(plan, K_sort)
        limit == Get(plan, K_limit)
        sortOk == Truthy(sort) =>
                    /\ Iterable(sort)
                    /\ \A i \in 1..Count(sort) :
                          /\ Count(Elems(sort)[i]) = 2
                          /\ CanInt(Elems(Elems(sort)[i])[2])
    IN IF ~sortOk THEN ExecError("sort")
       ELSE IF Truthy(limit) /\ ~CanInt(limit) THEN ExecError("int()")
       ELSE IF d.raise THEN ExecError("driver")
       ELSE IF d.docs = <<>> THEN ExecResult(<<>>, <<>>)
       ELSE Tabulate([i \in 1..Len(d.docs) |->
                DocSet(d.docs[i], F__id, PyStr(DocGet(d.docs[i], F__id)))])

\* mongodb aggregate (lines 323-333): an "_id" that is present and is not
\* a str, int or float is stringified.
MongoAggregate(plan, d) ==
    IF d.raise THEN ExecError("driver")
    ELSE IF d.docs = <<>> THEN ExecResult(<<>>, <<>>)
    ELSE Tabulate([i \in 1..Len(d.docs) |->
            IF F__id \in Keys(d.docs[i]) /\ ~IsScalar(d.docs[i][F__id])
            THEN DocSet(d.docs[i], F__id, PyStr(d.docs[i][F__id]))
            ELSE d.docs[i]])

\* mongodb (lines 301-336)
ExecuteMongo(plan_or_sql, d) ==
    LET p == AsPlan(plan_or_sql)
        plan == p.val
    IN IF ~p.ok THEN ExecError("json.loads")
       ELSE IF plan.t # "obj" \/ ~HasKey(plan, K_collection) THEN ExecError("plan[collection]")
       ELSE IF Get(plan, K_collection).t # "str" THEN ExecError("driver")
       ELSE LET op == IF HasKey(plan, K_operation)
                      THEN Get(plan, K_operation) ELSE JV("str", S_find, <<>>, <<>>)
            IN IF op.t = "str" /\ op.s = S_find THEN MongoFind(plan, d)
               ELSE IF op.t = "str" /\ op.s = S_aggregate THEN MongoAggregate(plan, d)
               ELSE ExecError("Unsupported MongoDB operation")

\* The calls made on the Firestore query builder, in order (lines 341-350).
FirestoreCalls(plan) ==
    LET filters == Get(plan, K_filters)
    IN <<"collection">>
       \o (IF Truthy(filters) THEN [i \in 1..Count(filters) |-> "where"] ELSE <<>>)
       \o (IF Truthy(Get(plan, K_order_by)) THEN <<"order_by">> ELSE <<>>)
       \o (IF Truthy(Get(plan, K_limit)) THEN <<"limit">> ELSE <<>>)
       \o <<"stream">>

\* firebase (lines 338-356): each snapshot becomes {**d.to_dict(), "id": d.id}.
ExecuteFirestore(plan_or_sql, d) ==
    LET p == AsPlan(plan_or_sql)
        plan == p.val
        filters == Get(plan, K_filters)
        order_by == Get(plan, K_order_by)
        limit == Get(plan, K_limit)
    IN IF ~p.ok THEN ExecError("json.loads")
       ELSE IF plan.t # "obj" \/ ~HasKey(plan, K_collection) THEN ExecError("plan[collection]")
       ELSE IF Truthy(filters) /\ ~(Iterable(filters) /\ \A i \in 1..Count(filters) :
                                        Count(Elems(filters)[i]) = 3)
       THEN ExecError("field, op, value = f")
       ELSE IF Truthy(order_by) /\ Count(order_by) # 2 THEN ExecError("f, direction = order_by")
       ELSE IF Truthy(limit) /\ ~CanInt(limit) THEN ExecError("int()")
       ELSE IF d.raise THEN ExecError("driver")
       ELSE IF d.docs = <<>> THEN [ExecResult(<<>>, <<>>) EXCEPT !.calls = FirestoreCalls(plan)]
       ELSE [Tabulate([i \in 1..Len(d.docs) |->
                          DocSet(d.docs[i].fields, F_id, d.docs[i].id)])
             EXCEPT !.calls = FirestoreCalls(plan)]

\* h.get("_source") or {}
SourceOf(h) == IF h.hasSource THEN h.source ELSE <<>>

\* elasticsearch (lines 358-369)
ExecuteSearch(plan_or_sql, index, d) ==
    LET p == AsPlan(plan_or_sql)
    IN IF ~p.ok THEN ExecError("json.loads")
       ELSE IF ~index THEN ExecError("Elasticsearch index is required")
       ELSE IF d.raise THEN ExecError("driver")
       ELSE IF d.hits = <<>> THEN ExecResult(<<>>, <<>>)
       ELSE Tabulate([i \in 1..Len(d.hits) |-> SourceOf(d.hits[i])])

\* The rows of the dynamic fallback (line 400): a list or tuple item becomes
\* a row of its elements, any other item a row of one.
FallbackRows(items) ==
    [i \in 1..Len(items) |->
        IF items[i].isList THEN items[i].elems ELSE <<items[i].val>>]

\* "col1", "col2", ...
ColName(i) ==
    <<"c", "o", "l">> \o <<CHOOSE c \in Digits : Ord(c) = Ord("0") + i>>

\* redis HGETALL (lines 382-388)
RedisHgetallMutantNoEmptyCase(d) ==
    ExecResult([i \in 1..Len(d.entries) |-> <<d.entries[i].field, d.entries[i].value>>],
               <<C_field, C_value>>)

RedisHgetall(d) ==
    IF d.entries = <<>> THEN ExecResult(<<>>, <<>>)
    ELSE ExecResult([i \in 1..Len(d.entries) |->
                        <<d.entries[i].field, d.entries[i].value>>],
                    <<C_field, C_value>>)

\* redis (lines 371-403).  d.argsOk: the driver method accepts *args.
ExecuteRedis(plan_or_sql, d) ==
    LET p == AsPlan(plan_or_sql)
        plan == p.val
        command == Get(plan, K_command)
        cmd == IF Truthy(command) THEN command ELSE JV("str", <<>>, <<>>, <<>>)
        args == IF HasKey(plan, K_args) THEN Get(plan, K_args) ELSE JV("arr", <<>>, <<>>, <<>>)
    IN IF ~p.ok THEN ExecError("json.loads")
       ELSE IF plan.t # "obj" THEN ExecError("plan.get")
       ELSE IF cmd.t # "str" THEN ExecError("upper()")
       ELSE IF Upper(cmd.s) = S_GET
       THEN IF Count(args) # 1 \/ d.raise THEN ExecError("driver")
            ELSE ExecResult(IF d.val # PyNone THEN <<<<d.val>>>> ELSE <<>>, <<C_value>>)
       ELSE IF Upper(cmd.s) = S_SET
       THEN IF Count(args) < 2 \/ d.raise THEN ExecError("driver")
            ELSE ExecResult(<<<<PyVal("bool", IF d.val # PyNone THEN 1 ELSE 0)>>>>, <<C_ok>>)
       ELSE IF Upper(cmd.s) = S_HGETALL
       THEN IF Count(args) # 1 \/ d.raise THEN ExecError("driver")
            ELSE RedisHgetall(d)
       ELSE IF Upper(cmd.s) = S_SCAN
       THEN IF Count(args) < 0 \/ d.raise THEN ExecError("driver")
            ELSE ExecResult([i \in 1..Len(d.keys) |-> <<d.keys[i]>>], <<C_key>>)
       ELSE IF cmd.s = <<>> \/ ~d.hasMethod THEN ExecError("Unsupported Redis command")
       ELSE IF Count(args) < 0 \/ d.raise THEN ExecError("driver")
       ELSE IF d.isList
       THEN LET rows == FallbackRows(d.items)
            IN IF rows = <<>> THEN ExecError("IndexError")
               ELSE ExecResult(rows,
                               IF Len(rows[1]) = 1 THEN <<C_value>>
                               ELSE [i \in 1..Len(rows[1]) |-> ColName(i)])
       ELSE ExecResult(<<<<d.val>>>>, <<C_result>>)

\* execute_query(conn, db_type, plan_or_sql, config), given what the driver
\* answers (d); every exception leaves as ValueError (lines 408-409).
execute_query(db_type, gen, index, d) ==
    CASE db_type \in SqlKinds -> ExecuteSql(d)
      [] db_type = "mongodb" -> ExecuteMongo(gen.plan, d)
      [] db_type = "firebase" -> ExecuteFirestore(gen.plan, d)
      [] db_type = "elasticsearch" -> ExecuteSearch(gen.plan, index, d)
      [] db_type = "redis" -> ExecuteRedis(gen.plan, d)
      [] OTHER -> ExecError("Query execution not implemented")

-----------------------------------------------------------------------------
(* What the drivers can answer *)

\* the sequences over S of length at most n
SeqsUpTo(S, n) == UNION { [1..k -> S] : k \in 0..n }

FieldValues(k) ==
    IF k = F__id THEN { PyVal("oid", 1), PyVal("int", 7) }
    ELSE IF k = F_id THEN { PyVal("str", 9) }
    ELSE { PyVal("int", 1) }

\* the documents with keys among `keys`, each key with one of its values
DocsOver(keys) ==
    UNION { { d \in [ks -> UNION { FieldValues(f) : f \in ks }] :
                \A f \in ks : d[f] \in FieldValues(f) } : ks \in SUBSET keys }

NoDescription == None

SqlResponses ==
    { [raise |-> TRUE, description |-> NoDescription, rows |-> <<>>],
      [raise |-> FALSE, description |-> NoDescription, rows |-> <<>>] }
    \cup
    { [raise |-> FALSE, description |-> [names |-> names], rows |-> rows] :
        names \in { <<F_id>>, <<F_id, F_a>> },
        rows \in SeqsUpTo({ <<PyVal("int", 1)>>, <<PyVal("int", 1), PyVal("str", 2)>> },
                          MaxItems) }

\* DB-API: every fetched row has one entry per described column
SqlResponsesTyped ==
    { d \in SqlResponses :
        d.description # NoDescription =>
            \A i \in 1..Len(d.rows) : Len(d.rows[i]) = Len(d.description.names) }

MongoResponses ==
    { [raise |-> TRUE, docs |-> <<>>] }
    \cup { [raise |-> FALSE, docs |-> docs] :
             docs \in SeqsUpTo(DocsOver({F__id, F_a, F_B}), MaxItems) }

FirestoreResponses ==
    { [raise |-> TRUE, docs |-> <<>>] }
    \cup { [raise |-> FALSE, docs |-> docs] :
             docs \in SeqsUpTo([id : { PyVal("str", 5) },
                                fields : DocsOver({F_id, F_a, F_B})],
                               MaxItems) }

SearchResponses ==
    { [raise |-> TRUE, hits |-> <<>>] }
    \cup { [raise |-> FALSE, hits |-> hits] :
             hits \in SeqsUpTo({ [hasSource |-> FALSE, source |-> <<>>] }
                               \cup [hasSource : {TRUE},
                                     source : DocsOver({F_a, F_B})],
                               MaxItems) }

RedisStr(n) == PyVal("str", n)

\* A reply of the driver to one command.  val: a scalar reply (None, a str,
\* True); entries: the hash of HGETALL in iteration order; keys: the keys of
\* SCAN; hasMethod: getattr(conn, cmd.lower(), None) finds a method; isList
\* and items: a list or tuple reply, whose items are scalars or lists.
RedisReply(raise, val, entries, keys, hasMethod, isList, items) ==
    [raise |-> raise, val |-> val, entries |-> entries, keys |-> keys,
     hasMethod |-> hasMethod, isList |-> isList, items |-> items]

HashEntries ==
    { e \in SeqsUpTo([field : { RedisStr(1), RedisStr(2) }, value : { RedisStr(1) }],
                     MaxItems) :
        \A i, j \in 1..Len(e) : i # j => e[i].field # e[j].field }

ReplyItems ==
    { [isList |-> FALSE, val |-> RedisStr(1), elems |-> <<>>] }
    \cup { [isList |-> TRUE, val |-> PyNone, elems |-> elems] :
             elems \in SeqsUpTo({ RedisStr(1) }, MaxItems) }

RedisResponses ==
    { RedisReply(TRUE, PyNone, <<>>, <<>>, TRUE, FALSE, <<>>),
      RedisReply(FALSE, PyNone, <<>>, <<>>, FALSE, FALSE, <<>>) }
    \cup { RedisReply(FALSE, v, <<>>, <<>>, TRUE, FALSE, <<>>) :
             v \in { PyNone, RedisStr(1), PyVal("bool", 1) } }
    \cup { RedisReply(FALSE, PyNone, e, <<>>, TRUE, FALSE, <<>>) : e \in HashEntries }
    \cup { RedisReply(FALSE, PyNone, <<>>, k, TRUE, FALSE, <<>>) :
             k \in SeqsUpTo({ RedisStr(1) }, MaxItems) }
    \cup { RedisReply(FALSE, PyNone, <<>>, <<>>, TRUE, TRUE, items) :
             items \in SeqsUpTo(ReplyItems, MaxItems) }

DriverResponses(db_type) ==
    CASE db_type \in SqlKinds -> SqlResponsesTyped
      [] db_type = "mongodb" -> MongoResponses
      [] db_type = "firebase" -> FirestoreResponses
      [] db_type = "elasticsearch" -> SearchResponses
      [] OTHER -> RedisResponses

-----------------------------------------------------------------------------
(* Lines 50-53 of query(): natural_to_sql, then execute_query *)

InitPipeline ==
    /\ InitRoutes
    /\ pipe \in { PipeStart(k, t, ix) :
                    k \in SupportedKinds, t \in FixedTexts, ix \in BOOLEAN }
    /\ pipe.index => pipe.db_type = "elasticsearch"

Execute ==
    /\ pipe # None
    /\ pipe.phase = "planned"
    /\ pipe.gen.ok
    /\ \E d \in DriverResponses(pipe.db_type) :
          pipe' = [pipe EXCEPT !.phase = "done", !.drv = d,
                               !.exe = execute_query(pipe.db_type, pipe.gen, pipe.index, d)]
    /\ UNCHANGED routeVars

NextPipeline == Generate \/ Execute

SpecPipeline == InitPipeline /\ [][NextPipeline]_vars

-----------------------------------------------------------------------------
(* C4 *)

\* execute_query returned a result
Executed(kinds) ==
    /\ pipe # None
    /\ pipe.phase = "done"
    /\ pipe.exe.ok
    /\ pipe.db_type \in kinds

\* every row has exactly len(columns) entries
RowsAligned(res) == \A i \in 1..Len(res.rows) : Len(res.rows[i]) = Len(res.columns)

\* C4 as stated: every result execute_query returns, for every kind and
\* plan, has rows of exactly len(columns) entries, and a result without
\* data is exactly columns = [] and rows = [].
C4_EveryResultTabular ==
    Executed(SupportedKinds) =>
        /\ RowsAligned(pipe.exe)
        /\ pipe.exe.rows = <<>> => pipe.exe.columns = <<>>

-----------------------------------------------------------------------------
(* C5 *)

\* The document-store plan asks for find: its operation is "find" or absent
\* (any other operation but "aggregate" returns no result).
IsFind ==
    /\ pipe.db_type = "mongodb"
    /\ ~(HasKey(pipe.gen.plan, K_operation)
          /\ Get(pipe.gen.plan, K_operation).s = S_aggregate)

\* The documents the driver returned, and the identifier field the branch
\* sets on every one of them ("_id" for find, "id" for firebase; aggregate
\* sets none).
ReturnedDocs ==
    IF pipe.db_type = "firebase"
    THEN [i \in 1..Len(pipe.drv.docs) |-> pipe.drv.docs[i].fields]
    ELSE pipe.drv.docs

InjectedFields ==
    IF pipe.db_type = "firebase" THEN {F_id}
    ELSE IF IsFind THEN {F__id}
    ELSE {}

\* C5: for a document-store (find, aggregate) or schemaless-document result
\* with at least one returned document, columns is the lexicographically
\* increasing sequence of the union of the documents' keys and the injected
\* identifier field, there is one row per document with len(columns)
\* entries in column order, and a key a document lacks is null in its row.
C5_SortedUnionColumns ==
    (Executed({"mongodb", "firebase"}) /\ pipe.drv.docs # <<>>) =>
        LET docs == ReturnedDocs
            res == pipe.exe
        IN /\ \A i, j \in 1..Len(res.columns) :
                  i < j => StrLess(res.columns[i], res.columns[j])
           /\ Range(res.columns) =
                  InjectedFields \cup UNION { DOMAIN docs[i] : i \in 1..Len(docs) }
           /\ Len(res.rows) = Len(docs)
           /\ \A i \in 1..Len(docs) :
                  /\ Len(res.rows[i]) = Len(res.columns)
                  /\ \A j \in 1..Len(res.columns) :
                        LET c == res.columns[j]
                        IN IF c \in InjectedFields
                           THEN res.rows[i][j] # PyNone
                           ELSE IF c \notin DOMAIN docs[i]
                           THEN res.rows[i][j] = PyNone
                           ELSE IF c = F__id
                           THEN res.rows[i][j].v = docs[i][c].v
                           ELSE res.rows[i][j] = docs[i][c]

\* Two documents with different keys were returned, so a row holds a null
\* and the columns hold an upper-case name, "_id" and a lower-case name.
C5_Witness ==
    /\ Executed({"mongodb"})
    /\ IsFind
    /\ Len(pipe.drv.docs) = 2
    /\ DOMAIN pipe.drv.docs[1] = {F_a, F__id}
    /\ DOMAIN pipe.drv.docs[2] = {F_B}
    /\ pipe.exe.columns = <<F_B, F__id, F_a>>

-----------------------------------------------------------------------------
(* C6 *)

\* The command of a key-value plan, upper-cased.
RedisCommand == Upper(Get(pipe.gen.plan, K_command).s)

EntryRows(entries) ==
    [i \in 1..Len(entries) |-> <<entries[i].field, entries[i].value>>]

\* GET and SCAN, as C6 states them and as the code has them.
GetAndScanShapes ==
    /\ RedisCommand = S_GET =>
          /\ pipe.exe.columns = <<C_value>>
          /\ pipe.exe.rows = IF pipe.drv.val = PyNone THEN <<>> ELSE <<<<pipe.drv.val>>>>
    /\ RedisCommand = S_SCAN =>
          /\ pipe.exe.columns = <<C_key>>
          /\ pipe.exe.rows = [i \in 1..Len(pipe.drv.keys) |-> <<pipe.drv.keys[i]>>]

\* C6 as stated: GET gives the column "value" with no row for a missing key
\* and one row otherwise; HGETALL gives the columns "field", "value" with
\* one row per hash entry in iteration order; SCAN gives the column "key"
\* with one row per key.
C6_Original ==
    Executed({"redis"}) =>
        /\ GetAndScanShapes
        /\ RedisCommand = S_HGETALL =>
              /\ pipe.exe.columns = <<C_field, C_value>>
              /\ pipe.exe.rows = EntryRows(pipe.drv.entries)

\* C6 amended: as stated, except that HGETALL of an empty (or missing) hash
\* gives the empty result, columns = [] and rows = [].
C6_KeyValueShapes ==
    Executed({"redis"}) =>
        /\ GetAndScanShapes
        /\ RedisCommand = S_HGETALL =>
              /\ pipe.exe.columns =
                    IF pipe.drv.entries = <<>> THEN <<>> ELSE <<C_field, C_value>>
              /\ pipe.exe.rows = EntryRows(pipe.drv.entries)

\* HGETALL answered a hash of two entries.
C6_Witness ==
    /\ Executed({"redis"})
    /\ RedisCommand = S_HGETALL
    /\ Len(pipe.drv.entries) = 2
    /\ Len(pipe.exe.rows) = 2

-----------------------------------------------------------------------------
(* C11 *)

\* "select": the member the planner prompt asks for (line 244); execute_query
\* never reads it.
K_select == <<"s", "e", "l", "e", "c", "t">>

\* The position of a query-builder call in the order filters, ordering, limit.
StepRank(call) ==
    CASE call = "collection" -> 0
      [] call = "where" -> 1
      [] call = "order_by" -> 2
      [] call = "limit" -> 3
      [] OTHER -> 4

\* The query builder was called in the order: one where per filter, then the
\* ordering, then the limit, then the read.
StepsInOrder ==
    LET calls == pipe.exe.calls
        filters == Get(pipe.gen.plan, K_filters)
    IN /\ \A i, j \in 1..Len(calls) : i < j => StepRank(calls[i]) <= StepRank(calls[j])
       /\ Cardinality({ i \in 1..Len(calls) : calls[i] = "where" })
             = (IF Truthy(filters) THEN Count(filters) ELSE 0)
       /\ calls[Len(calls)] = "stream"

\* The names in the plan's select list.
SelectedFields ==
    LET select == Get(pipe.gen.plan, K_select)
    IN { select.items[i].s : i \in 1..Len(select.items) }

\* C11 as stated: schemaless-document execution applies every filter in
\* sequence, then the ordering, then the limit, then the field selection, so
\* with a non-null select list the result holds only the selected fields and
\* the injected id field.
C11_FiltersOrderLimitSelect ==
    Executed({"firebase"}) =>
        /\ StepsInOrder
        /\ Get(pipe.gen.plan, K_select).t = "arr" =>
              Range(pipe.exe.columns) \subseteq SelectedFields \cup {F_id}

-----------------------------------------------------------------------------
(* C12 *)

\* The stages of request r so far were all called with the triple `a`.
StagesUse(r, a) ==
    \A i \in 1..Len(used[r]) :
        /\ used[r][i].db_type = a.db_type
        /\ used[r][i].stage # "plan" =>
              /\ used[r][i].conn = a.conn
              /\ used[r][i].config = a.config

\* No request has a plan generated for one kind and a stage run against a
\* handle of another kind.
NoKindMix(r) ==
    \A i, j \in 1..Len(used[r]) :
        used[r][j].stage # "plan" => used[r][j].conn.kind = used[r][i].db_type

\* C12: within one query request the kind, the connection and the config
\* are read from the registry once, before the first stage, and never again
\* (the triple of a request past the read does not change, whatever /connect
\* does to the registry); introspection, plan generation and execution are
\* all called with that triple, so no request generates a plan for one kind
\* and executes it against a handle of another kind.
C12_TripleReadOnce ==
    /\ [](\A r \in Reqs :
            /\ used[r] # <<>> => act[r] # None
            /\ StagesUse(r, act[r])
            /\ NoKindMix(r))
    /\ [][\A r \in Reqs : pc[r] # "idle" => act'[r] = act[r]]_vars

\* A request ran its three stages on the triple it read although a /connect
\* request replaced the active entry by a handle of another kind meanwhile.
C12_Witness ==
    \E r \in Reqs :
        /\ Len(used[r]) = 3
        /\ used[r][3].stage = "exec"
        /\ connections # None
        /\ connections.db_type # act[r].db_type
        /\ connLog.n = 2

=============================================================================
